---- MODULE Spec2Model ----
(***************************************************************************)
(* Model of the anomaly detector of rpi-processor (src/rpi-processor/src/  *)
(* anomalies.rs): AnomalyConfig, AnomalyFlags, DailyStats, AnomalyDetector *)
(* and analyze_historical_data.                                            *)
(*                                                                         *)
(* Numbers.  f32 readings are modelled by integers (every value used is an *)
(* integer that f32 represents exactly, so comparisons and the subtraction *)
(* temp - baseline are exact).  A DateTime<Utc> is the number of whole     *)
(* hours since 00:00 of the first day of a year; Hour, Ordinal and Year    *)
(* decode it the way chrono's hour(), ordinal() and year() do.             *)
(* Option<T> is a sequence: <<>> is None and <<x>> is Some(x).             *)
(* The one non-finite f32 modelled is NaN, as a temperature: every         *)
(* comparison with it is false, f32::min and f32::max skip it, and         *)
(* partial_cmp yields None on it, which the unwrap of the baseline turns   *)
(* into a panic.                                                           *)
(***************************************************************************)
EXTENDS Integers, Sequences, FiniteSets, TLC

VARIABLES
    config,                  \* AnomalyDetector.config
    current_day_stats,       \* AnomalyDetector.current_day_stats
    historical_daily_stats,  \* AnomalyDetector.historical_daily_stats
    recent_measurements,     \* AnomalyDetector.recent_measurements
    flags,                   \* the AnomalyFlags returned by the last analyze call
    baseline,                \* what get_pre_sunlight_baseline returned in that call
    input,                   \* the measurements passed to analyze so far, in order
    outputs,                 \* the AnomalyFlags returned so far, in order
    probed,                  \* the measurement under test has been analysed
    batch_result,            \* Some(BatchAnalysisResult) once analyze_historical_data ran
    profile_batch,           \* Some(the slice build_profile was called with)
    panicked,                \* a call panicked: the thread of the stream unwound
    persist,                 \* the chunk loop of the batch driver writing anomalies
    envelope,                \* a DeviceMessage, its JSON and what from_json made of it
    firmware,                \* the ESP32 in its wake cycle: main of esp32-firmware
    broker                   \* the MQTT broker's command topic and the commander

vars == <<config, current_day_stats, historical_daily_stats, recent_measurements,
          flags, baseline, input, outputs, probed, batch_result, profile_batch,
          panicked, persist, envelope, firmware, broker>>

-----------------------------------------------------------------------------
(* Bounds of the model. *)

\* Longest warm-up feed of the main specification.
MaxFeed == 10

\* Longest stream of the baseline specification.
MaxLong == 10

\* Longest stream of the replay specification.
MaxReplay == 6

\* Length of the end-to-end scenario (five night readings and the 10:00 one).
MaxScenario == 6

\* Longest stream of the days specification.
MaxDays == 5

\* Longest stream of the non-finite specification.
MaxNaN == 5

\* Longest stream of the devices specification.
MaxDevices == 5

\* Longest stream of the morning specification.
MaxMorning == 13

\* Most wake cycles of the device in the firmware specification.
MaxCycles == 3

\* Most commands the commander publishes in the firmware specification.
MaxCommands == 2

\* Most flagged records of the persistence specification: two chunks of the
\* larger chunk size.
MaxRecords == 501

-----------------------------------------------------------------------------
(* Program constants. *)

\* f32::MAX and f32::MIN of DailyStats::new: above and below every reading.
F32_MAX == 1000000
F32_MIN == -1000000

\* chrono::Duration::hours(3) of analyze.
WINDOW_HOURS == 3

\* `m.time.hour() < 7` of get_pre_sunlight_baseline.
EARLY_MORNING_HOUR == 7

\* `baseline_temps.len() >= 3` of get_pre_sunlight_baseline.
MIN_EARLY_SAMPLES == 3

\* `self.recent_measurements.len() >= 10` of get_pre_sunlight_baseline.
MIN_WINDOW_SAMPLES == 10

\* `const MAX_ATTEMPTS: u8 = 15` of perform_measurement.
MAX_ATTEMPTS == 15

\* `let batch_size = 100` of mark_historical_data.
BATCH_SIZE == 100

\* `anomaly_batch.chunks(500)` of run_anomaly_test_matrix.
MATRIX_CHUNK_SIZE == 500

-----------------------------------------------------------------------------
(* Time. *)

Hour(t) == t % 24

Ordinal(t) == ((t \div 24) % 365) + 1

Year(t) == t \div (24 * 365)

-----------------------------------------------------------------------------
(* AnomalyConfig, AnomalyFlags. *)

DefaultConfig ==
    [ humidity_definite_anomaly   |-> 55,
      humidity_suspicious         |-> 65,
      temp_above_daily_min        |-> 8,
      temp_absolute_min_for_spike |-> 12,
      daylight_start_hour         |-> 6,
      daylight_end_hour           |-> 18,
      co2_spike_threshold         |-> 700 ]

DefaultFlags ==
    [ temperature_spike |-> FALSE,
      humidity_spike    |-> FALSE,
      co2_spike         |-> FALSE,
      possible_sunlight |-> FALSE,
      physical_constraint_temp_violation     |-> FALSE,
      physical_constraint_humidity_violation |-> FALSE,
      physical_constraint_co2_violation      |-> FALSE ]

\* Mutant of is_any_true: humidity_spike is left out of the disjunction.
is_any_true_without_humidity(f) ==
    f.temperature_spike \/ f.co2_spike \/ f.possible_sunlight

is_any_true(f) ==
    f.temperature_spike \/ f.humidity_spike \/ f.co2_spike \/ f.possible_sunlight

-----------------------------------------------------------------------------
(* f32. *)

\* f32::NAN, a value apart from every reading and from f32::MIN.
NaN == F32_MIN - 1

\* a >= b on f32: false when either side is NaN.
Ge(a, b) == a # NaN /\ b # NaN /\ a >= b

\* a - b on f32: NaN when either side is NaN.
Sub(a, b) == IF a = NaN \/ b = NaN THEN NaN ELSE a - b

\* f32::min(a, b): the other operand when one is NaN.
Min(a, b) ==
    IF b = NaN THEN a
    ELSE IF a = NaN THEN b
    ELSE IF b < a THEN b ELSE a

\* f32::max(a, b): the other operand when one is NaN.
Max(a, b) ==
    IF b = NaN THEN a
    ELSE IF a = NaN THEN b
    ELSE IF b > a THEN b ELSE a

-----------------------------------------------------------------------------
(* DailyStats. *)

DailyStatsNew ==
    [ date              |-> <<>>,
      temp_min          |-> F32_MAX,
      temp_max          |-> F32_MIN,
      humidity_min      |-> F32_MAX,
      humidity_max      |-> F32_MIN,
      measurement_count |-> 0 ]

\* Mutant of DailyStatsUpdate: temp_max is widened with min, a slip of the pen.
DailyStatsUpdate_min_for_max(stats, m) ==
    LET current_date == <<Year(m.time), Ordinal(m.time)>>
    IN  IF stats.date # <<current_date>>
        THEN [ date              |-> <<current_date>>,
               temp_min          |-> m.temperature,
               temp_max          |-> m.temperature,
               humidity_min      |-> m.humidity,
               humidity_max      |-> m.humidity,
               measurement_count |-> 1 ]
        ELSE [ date              |-> stats.date,
               temp_min          |-> Min(stats.temp_min, m.temperature),
               temp_max          |-> Min(stats.temp_max, m.temperature),
               humidity_min      |-> Min(stats.humidity_min, m.humidity),
               humidity_max      |-> Max(stats.humidity_max, m.humidity),
               measurement_count |-> stats.measurement_count + 1 ]

\* Mutant of DailyStatsUpdate: the profile is reset on every call.
DailyStatsUpdate_always_reset(stats, m) ==
    [ date              |-> << <<Year(m.time), Ordinal(m.time)>> >>,
      temp_min          |-> m.temperature,
      temp_max          |-> m.temperature,
      humidity_min      |-> m.humidity,
      humidity_max      |-> m.humidity,
      measurement_count |-> 1 ]

DailyStatsUpdate(stats, m) ==
    LET current_date == <<Year(m.time), Ordinal(m.time)>>
    IN  IF stats.date # <<current_date>>
        THEN [ date              |-> <<current_date>>,
               temp_min          |-> m.temperature,
               temp_max          |-> m.temperature,
               humidity_min      |-> m.humidity,
               humidity_max      |-> m.humidity,
               measurement_count |-> 1 ]
        ELSE [ date              |-> stats.date,
               temp_min          |-> Min(stats.temp_min, m.temperature),
               temp_max          |-> Max(stats.temp_max, m.temperature),
               humidity_min      |-> Min(stats.humidity_min, m.humidity),
               humidity_max      |-> Max(stats.humidity_max, m.humidity),
               measurement_count |-> stats.measurement_count + 1 ]

-----------------------------------------------------------------------------
(* AnomalyDetector: a detector is the record of its four fields. *)

Detector(c, stats, hist, recent) ==
    [ config                 |-> c,
      current_day_stats      |-> stats,
      historical_daily_stats |-> hist,
      recent_measurements    |-> recent ]

with_config(c) == Detector(c, DailyStatsNew, <<>>, <<>>)

RECURSIVE BuildProfileLoop_last_day_forgotten(_, _, _)
\* Mutant of BuildProfileLoop: the push after the loop is missing, so the last
\* day of the batch is not stored.
BuildProfileLoop_last_day_forgotten(measurements, hist, current_stats) ==
    IF measurements = <<>>
    THEN hist
    ELSE LET m      == Head(measurements)
             m_date == <<Year(m.time), Ordinal(m.time)>>
             newday == current_stats.date # <<m_date>>
             hist1  == IF newday /\ current_stats.measurement_count > 0
                       THEN Append(hist, current_stats)
                       ELSE hist
             stats1 == IF newday THEN DailyStatsNew ELSE current_stats
         IN  BuildProfileLoop_last_day_forgotten(Tail(measurements), hist1,
                                                 DailyStatsUpdate(stats1, m))

RECURSIVE BuildProfileLoop(_, _, _)
\* The loop of build_profile over measurements[i..], with the days pushed so far
\* and the running current_stats; the value is the final historical_daily_stats.
BuildProfileLoop(measurements, hist, current_stats) ==
    IF measurements = <<>>
    THEN IF current_stats.measurement_count > 0
         THEN Append(hist, current_stats)
         ELSE hist
    ELSE LET m      == Head(measurements)
             m_date == <<Year(m.time), Ordinal(m.time)>>
             newday == current_stats.date # <<m_date>>
             hist1  == IF newday /\ current_stats.measurement_count > 0
                       THEN Append(hist, current_stats)
                       ELSE hist
             stats1 == IF newday THEN DailyStatsNew ELSE current_stats
         IN  BuildProfileLoop(Tail(measurements), hist1, DailyStatsUpdate(stats1, m))

build_profile(det, measurements) ==
    [det EXCEPT !.historical_daily_stats =
        BuildProfileLoop(measurements, <<>>, DailyStatsNew)]

\* Mutant of MinBy: the comparator reversed, which yields the maximum.
RECURSIVE MinBy_reversed(_)
MinBy_reversed(temps) ==
    IF Len(temps) = 1
    THEN temps[1]
    ELSE Max(temps[1], MinBy_reversed(Tail(temps)))

RECURSIVE MinBy(_)
\* Iterator::min_by over a non-empty sequence of temperatures.
MinBy(temps) ==
    IF Len(temps) = 1
    THEN temps[1]
    ELSE Min(temps[1], MinBy(Tail(temps)))

Temperatures(ms) == [i \in 1..Len(ms) |-> ms[i].temperature]

IsEarlyMorning(m, current_time) ==
    /\ Ordinal(m.time) = Ordinal(current_time)
    /\ Year(m.time) = Year(current_time)
    /\ Hour(m.time) < EARLY_MORNING_HOUR

MedianIndex(n) == (n \div 2) + 1

\* Lines 221-237 of get_pre_sunlight_baseline: the median of baseline_temps, else
\* the minimum of the window, else None.
BaselineOf(baseline_temps, recent) ==
    IF Len(baseline_temps) >= MIN_EARLY_SAMPLES
    THEN LET temps == SortSeq(baseline_temps, LAMBDA a, b : a < b)
         IN  <<temps[MedianIndex(Len(temps))]>>
    ELSE IF Len(recent) >= MIN_WINDOW_SAMPLES
         THEN <<MinBy(Temperatures(recent))>>
         ELSE <<>>

\* Mutant of get_pre_sunlight_baseline: the day's minimum of the stored profile
\* is the baseline whenever build_profile stored a profile of the current day.
get_pre_sunlight_baseline_daily_min(det, current_time) ==
    LET today == SelectSeq(det.historical_daily_stats,
                           LAMBDA d : d.date = <<<<Year(current_time),
                                                   Ordinal(current_time)>>>>)
    IN  IF today # <<>>
        THEN <<today[1].temp_min>>
        ELSE BaselineOf(
                Temperatures(SelectSeq(det.recent_measurements,
                                       LAMBDA m : IsEarlyMorning(m, current_time))),
                det.recent_measurements)

\* Mutant of get_pre_sunlight_baseline: the early-morning cutoff is the configured
\* daylight start hour.
get_pre_sunlight_baseline_configured(det, current_time) ==
    BaselineOf(
        Temperatures(SelectSeq(det.recent_measurements,
            LAMBDA m : /\ Ordinal(m.time) = Ordinal(current_time)
                       /\ Year(m.time) = Year(current_time)
                       /\ Hour(m.time) < det.config.daylight_start_hour)),
        det.recent_measurements)

get_pre_sunlight_baseline(det, current_time) ==
    LET early == SelectSeq(det.recent_measurements,
                           LAMBDA m : IsEarlyMorning(m, current_time))
        baseline_temps == Temperatures(early)
    IN  BaselineOf(baseline_temps, det.recent_measurements)

\* Whether `a.partial_cmp(b).unwrap()` panics in get_pre_sunlight_baseline: the
\* sort (line 224) and min_by (line 234) compare every element of a list of two
\* or more, and partial_cmp is None as soon as one side is NaN.
BaselinePanics(det, current_time) ==
    LET early == SelectSeq(det.recent_measurements,
                           LAMBDA m : IsEarlyMorning(m, current_time))
    IN  IF Len(early) >= MIN_EARLY_SAMPLES
        THEN \E i \in 1..Len(early) : early[i].temperature = NaN
        ELSE /\ Len(det.recent_measurements) >= MIN_WINDOW_SAMPLES
             /\ \E i \in 1..Len(det.recent_measurements) :
                    det.recent_measurements[i].temperature = NaN

\* Mutant of Track: the retain keeps the entry that is exactly three hours old.
Track_inclusive(det, m) ==
    LET cutoff == m.time - WINDOW_HOURS
    IN  [det EXCEPT
            !.current_day_stats   = DailyStatsUpdate(det.current_day_stats, m),
            !.recent_measurements =
                SelectSeq(Append(det.recent_measurements, m),
                          LAMBDA x : x.time >= cutoff)]

\* Mutant of Track: on a day change the finished profile is pushed to the history.
Track_archiving(det, m) ==
    LET cutoff == m.time - WINDOW_HOURS
        finished == det.current_day_stats
        archive == /\ finished.measurement_count > 0
                   /\ finished.date # << <<Year(m.time), Ordinal(m.time)>> >>
    IN  [det EXCEPT
            !.historical_daily_stats = IF archive THEN Append(@, finished) ELSE @,
            !.current_day_stats   = DailyStatsUpdate(det.current_day_stats, m),
            !.recent_measurements =
                SelectSeq(Append(det.recent_measurements, m),
                          LAMBDA x : x.time > cutoff)]

\* Mutant of Track: a new day clears the history, as build_profile does on entry.
Track_clearing(det, m) ==
    LET cutoff == m.time - WINDOW_HOURS
        newday == det.current_day_stats.date # << <<Year(m.time), Ordinal(m.time)>> >>
    IN  [det EXCEPT
            !.historical_daily_stats = IF newday THEN <<>> ELSE @,
            !.current_day_stats   = DailyStatsUpdate(det.current_day_stats, m),
            !.recent_measurements =
                SelectSeq(Append(det.recent_measurements, m),
                          LAMBDA x : x.time > cutoff)]

\* Mutant of Track: the measurement is inserted at the front of the window.
Track_prepend(det, m) ==
    LET cutoff == m.time - WINDOW_HOURS
    IN  [det EXCEPT
            !.current_day_stats   = DailyStatsUpdate(det.current_day_stats, m),
            !.recent_measurements =
                SelectSeq(<<m>> \o det.recent_measurements,
                          LAMBDA x : x.time > cutoff)]

\* Mutant of Track: the retain also keeps every entry of the measurement's day.
Track_whole_day(det, m) ==
    LET cutoff == m.time - WINDOW_HOURS
    IN  [det EXCEPT
            !.current_day_stats   = DailyStatsUpdate(det.current_day_stats, m),
            !.recent_measurements =
                SelectSeq(Append(det.recent_measurements, m),
                          LAMBDA x : \/ x.time > cutoff
                                     \/ /\ Year(x.time) = Year(m.time)
                                        /\ Ordinal(x.time) = Ordinal(m.time))]

\* "Update tracking" and the retain of analyze: the detector after lines 245-250.
Track(det, m) ==
    LET cutoff == m.time - WINDOW_HOURS
    IN  [det EXCEPT
            !.current_day_stats   = DailyStatsUpdate(det.current_day_stats, m),
            !.recent_measurements =
                SelectSeq(Append(det.recent_measurements, m),
                          LAMBDA x : x.time > cutoff)]

\* Mutant of is_daylight_hours: the end hour is excluded.
is_daylight_hours_end_excluded(c, m) ==
    /\ Hour(m.time) >= c.daylight_start_hour
    /\ Hour(m.time) < c.daylight_end_hour

\* Mutant of is_daylight_hours: the start hour is excluded.
is_daylight_hours_start_excluded(c, m) ==
    /\ Hour(m.time) > c.daylight_start_hour
    /\ Hour(m.time) <= c.daylight_end_hour

is_daylight_hours(c, m) ==
    /\ Hour(m.time) >= c.daylight_start_hour
    /\ Hour(m.time) <= c.daylight_end_hour

\* The test shared by the corroboration of stage 2 and by stage 3.
TempElevated(c, m, b) ==
    /\ Ge(Sub(m.temperature, b), c.temp_above_daily_min)
    /\ Ge(m.temperature, c.temp_absolute_min_for_spike)

\* Mutant of Stage1: the definite cutoff is exclusive.
Stage1_exclusive(c, m, f) ==
    IF m.humidity < c.humidity_definite_anomaly
    THEN [f EXCEPT !.humidity_spike = TRUE,
                   !.possible_sunlight = @ \/ is_daylight_hours(c, m)]
    ELSE f

\* Stage 1, the definite humidity anomaly (lines 260-272).
Stage1(c, m, f) ==
    IF m.humidity <= c.humidity_definite_anomaly
    THEN [f EXCEPT !.humidity_spike = TRUE,
                   !.possible_sunlight = @ \/ is_daylight_hours(c, m)]
    ELSE f

\* Mutant of Stage2: the corroboration by the baseline counts in daylight only.
Stage2_daylight_only(det, m, f) ==
    LET c == det.config
    IN  IF m.humidity <= c.humidity_suspicious /\ ~f.humidity_spike
        THEN LET baseline_temp == get_pre_sunlight_baseline(det, m.time)
             IN  IF baseline_temp # <<>>
                 THEN IF TempElevated(c, m, baseline_temp[1]) /\ is_daylight_hours(c, m)
                      THEN [f EXCEPT !.humidity_spike = TRUE,
                                     !.temperature_spike = TRUE,
                                     !.possible_sunlight = TRUE]
                      ELSE f
                 ELSE IF is_daylight_hours(c, m)
                         /\ Ge(m.temperature, c.temp_absolute_min_for_spike)
                      THEN [f EXCEPT !.humidity_spike = TRUE]
                      ELSE f
        ELSE f

\* Mutant of Stage2: without a baseline the absolute temperature decides alone,
\* at any hour.
Stage2_fallback_ungated(det, m, f) ==
    LET c == det.config
    IN  IF m.humidity <= c.humidity_suspicious /\ ~f.humidity_spike
        THEN LET baseline_temp == get_pre_sunlight_baseline(det, m.time)
             IN  IF baseline_temp # <<>>
                 THEN IF TempElevated(c, m, baseline_temp[1])
                      THEN [f EXCEPT !.humidity_spike = TRUE,
                                     !.temperature_spike = TRUE,
                                     !.possible_sunlight = @ \/ is_daylight_hours(c, m)]
                      ELSE f
                 ELSE IF Ge(m.temperature, c.temp_absolute_min_for_spike)
                      THEN [f EXCEPT !.humidity_spike = TRUE]
                      ELSE f
        ELSE f

\* Mutant of Stage2: the stage is entered whether or not stage 1 set
\* humidity_spike.
Stage2_after_definite(det, m, f) ==
    LET c == det.config
    IN  IF m.humidity <= c.humidity_suspicious
        THEN LET baseline_temp == get_pre_sunlight_baseline(det, m.time)
             IN  IF baseline_temp # <<>>
                 THEN IF TempElevated(c, m, baseline_temp[1])
                      THEN [f EXCEPT !.humidity_spike = TRUE,
                                     !.temperature_spike = TRUE,
                                     !.possible_sunlight = @ \/ is_daylight_hours(c, m)]
                      ELSE f
                 ELSE IF is_daylight_hours(c, m)
                         /\ Ge(m.temperature, c.temp_absolute_min_for_spike)
                      THEN [f EXCEPT !.humidity_spike = TRUE]
                      ELSE f
        ELSE f

\* Stage 2, the suspicious humidity (lines 274-314); det is the tracked detector.
Stage2(det, m, f) ==
    LET c == det.config
    IN  IF m.humidity <= c.humidity_suspicious /\ ~f.humidity_spike
        THEN LET baseline_temp == get_pre_sunlight_baseline(det, m.time)
             IN  IF baseline_temp # <<>>
                 THEN IF TempElevated(c, m, baseline_temp[1])
                      THEN [f EXCEPT !.humidity_spike = TRUE,
                                     !.temperature_spike = TRUE,
                                     !.possible_sunlight = @ \/ is_daylight_hours(c, m)]
                      ELSE f
                 ELSE IF is_daylight_hours(c, m)
                         /\ Ge(m.temperature, c.temp_absolute_min_for_spike)
                      THEN [f EXCEPT !.humidity_spike = TRUE]
                      ELSE f
        ELSE f

\* Mutant of Stage3: without a baseline, an absolutely high temperature in the
\* daylight hours counts as a spike, as the fallback of stage 2 does for humidity.
Stage3_without_baseline(det, m, f) ==
    LET c == det.config
    IN  IF ~f.temperature_spike
        THEN LET b == get_pre_sunlight_baseline(det, m.time)
             IN  IF b # <<>>
                 THEN IF TempElevated(c, m, b[1]) /\ is_daylight_hours(c, m)
                      THEN [f EXCEPT !.temperature_spike = TRUE]
                      ELSE f
                 ELSE IF is_daylight_hours(c, m)
                         /\ Ge(m.temperature, c.temp_absolute_min_for_spike)
                      THEN [f EXCEPT !.temperature_spike = TRUE]
                      ELSE f
        ELSE f

\* Mutant of Stage3: the temperature spike is not gated by the daylight hours.
Stage3_any_hour(det, m, f) ==
    LET c == det.config
    IN  IF ~f.temperature_spike
        THEN LET b == get_pre_sunlight_baseline(det, m.time)
             IN  IF b # <<>> /\ TempElevated(c, m, b[1])
                 THEN [f EXCEPT !.temperature_spike = TRUE]
                 ELSE f
        ELSE f

\* Stage 3, the independent temperature spike (lines 316-335).
Stage3(det, m, f) ==
    LET c == det.config
    IN  IF ~f.temperature_spike
        THEN LET b == get_pre_sunlight_baseline(det, m.time)
             IN  IF b # <<>> /\ TempElevated(c, m, b[1]) /\ is_daylight_hours(c, m)
                 THEN [f EXCEPT !.temperature_spike = TRUE]
                 ELSE f
        ELSE f

\* Mutant of Stage4: the CO2 threshold is exclusive.
Stage4_exclusive(c, m, f) ==
    IF m.co2 > c.co2_spike_threshold
    THEN [f EXCEPT !.co2_spike = TRUE]
    ELSE f

\* Stage 4, the CO2 spike (lines 337-346); co2 is a u16 cast to f32.
Stage4(c, m, f) ==
    IF m.co2 >= c.co2_spike_threshold
    THEN [f EXCEPT !.co2_spike = TRUE]
    ELSE f

\* Mutant of Stage5: the conjunction is not gated by the daylight hours.
Stage5_ungated(c, m, f) ==
    IF f.temperature_spike /\ f.humidity_spike
    THEN [f EXCEPT !.possible_sunlight = TRUE]
    ELSE f

\* Mutant of Stage5: the conjunction decides possible_sunlight alone, whatever
\* the earlier stages set.
Stage5_deciding(c, m, f) ==
    [f EXCEPT !.possible_sunlight =
        f.temperature_spike /\ f.humidity_spike /\ is_daylight_hours(c, m)]

\* Mutant of Stage5: a temperature spike in the daylight hours is enough.
Stage5_temperature_only(c, m, f) ==
    IF f.temperature_spike /\ is_daylight_hours(c, m)
    THEN [f EXCEPT !.possible_sunlight = TRUE]
    ELSE f

\* Stage 5, the sunlight conjunction (lines 348-350).
Stage5(c, m, f) ==
    IF f.temperature_spike /\ f.humidity_spike /\ is_daylight_hours(c, m)
    THEN [f EXCEPT !.possible_sunlight = TRUE]
    ELSE f

\* The flags analyze returns, given the detector after Track.
Classify(det, m) ==
    LET c == det.config
    IN  Stage5(c, m, Stage4(c, m, Stage3(det, m, Stage2(det, m,
            Stage1(c, m, DefaultFlags)))))

\* analyze as a function: the detector after the call and the flags returned, or
\* the detector as the panic left it.  Every call reaches get_pre_sunlight_baseline
\* (stage 3 calls it unless stage 2, which called it, set temperature_spike).
analyze(det, m) ==
    LET det1 == Track(det, m)
    IN  IF BaselinePanics(det1, m.time)
        THEN [ det |-> det1, panicked |-> TRUE ]
        ELSE [ det |-> det1, panicked |-> FALSE, flags |-> Classify(det1, m) ]

-----------------------------------------------------------------------------
(* analyze_historical_data. *)

RECURSIVE AnalyzeLoop(_, _, _)
\* The for loop of analyze_historical_data over measurements, from detector det
\* and the BatchAnalysisResult built so far.  A panic of analyze unwinds through
\* the loop, which then returns no result.
AnalyzeLoop(det, measurements, result) ==
    IF measurements = <<>>
    THEN result
    ELSE LET m == Head(measurements)
             r == analyze(det, m)
             f == r.flags
             result1 ==
                IF is_any_true(f)
                THEN [result EXCEPT
                        !.anomalies_detected = @ + 1,
                        !.sunlight_events = IF f.possible_sunlight THEN @ + 1 ELSE @,
                        !.anomaly_timestamps = Append(@, <<m.time, f, m.device>>)]
                ELSE result
         IN  IF r.panicked
             THEN [ panicked |-> TRUE ]
             ELSE AnalyzeLoop(r.det, Tail(measurements), result1)

\* Mutant of analyze_historical_data: the slice is sorted by time before the replay.
analyze_historical_data_sorting(measurements, c) ==
    LET sorted   == SortSeq(measurements, LAMBDA a, b : a.time < b.time)
        detector == build_profile(with_config(c), sorted)
        result   == [ total_measurements |-> Len(sorted),
                      anomalies_detected |-> 0,
                      sunlight_events    |-> 0,
                      anomaly_timestamps |-> <<>> ]
    IN  AnalyzeLoop(detector, sorted, result)

analyze_historical_data(measurements, c) ==
    LET detector == build_profile(with_config(c), measurements)
        result   == [ total_measurements |-> Len(measurements),
                      anomalies_detected |-> 0,
                      sunlight_events    |-> 0,
                      anomaly_timestamps |-> <<>> ]
    IN  AnalyzeLoop(detector, measurements, result)

-----------------------------------------------------------------------------
(* The chunk loop of mark_historical_data and run_anomaly_test_matrix           *)
(* (main.rs): `for chunk in anomaly_batch.chunks(n) { save_anomalies_batch(..,  *)
(* chunk, ..).await?; }`.  A flagged record is modelled by its position in      *)
(* anomaly_batch.  persist.posted holds the chunks whose request was sent.      *)

\* Before the driver reached the loop.
NotPersisting ==
    [ status |-> "idle", chunk_size |-> 0, anomaly_batch |-> <<>>,
      offset |-> 0, posted |-> <<>> ]

\* slice.chunks(n): the next chunk of at most n elements from position offset on.
NextChunk(batch, offset, n) ==
    SubSeq(batch, offset + 1, IF offset + n < Len(batch) THEN offset + n ELSE Len(batch))

\* One iteration of the loop: save_anomalies_batch posts the chunk; with `ok` the
\* response is a success and the loop goes on, otherwise the send failed or the
\* status is no success, save_anomalies_batch returns Err and `?` returns it from
\* the driver.
save_chunk(p, ok) ==
    LET chunk == NextChunk(p.anomaly_batch, p.offset, p.chunk_size)
    IN  [p EXCEPT !.posted = Append(@, chunk),
                  !.offset = IF ok THEN @ + Len(chunk) ELSE @,
                  !.status = IF ok THEN @ ELSE "err"]

-----------------------------------------------------------------------------
(* The message envelope of shared-types (lib.rs).  A DeviceMessage is a record *)
(* [device, payload]; a payload is a record of its variant's name and fields.  *)
(* A JSON document is modelled by the object serde_json writes and reads back: *)
(* a function from keys to JSON values, a value being a number, a string or    *)
(* null.  An f32 is an integer or NaN, as in the detector.                     *)

JNumber(n) == [t |-> "number", n |-> n, s |-> ""]
JString(s) == [t |-> "string", n |-> 0, s |-> s]
JNull == [t |-> "null", n |-> 0, s |-> ""]

\* enum DevicePayload: every variant with its `rename` and the types of its fields.
DevicePayload ==
    { [variant |-> "MeasurementSuccess", status |-> "success",
       fields |-> [co2 |-> "u16", temperature |-> "u32", humidity |-> "f32"]],
      [variant |-> "Error", status |-> "error", fields |-> [detail |-> "String"]],
      [variant |-> "FrcStart", status |-> "frc_start",
       fields |-> [target_ppm |-> "u16"]],
      [variant |-> "FrcWarmupComplete", status |-> "frc_warmup_complete",
       fields |-> [detail |-> "String"]],
      [variant |-> "FrcCalibrating", status |-> "frc_calibrating",
       fields |-> [target_ppm |-> "u16"]],
      [variant |-> "FrcSuccess", status |-> "frc_success",
       fields |-> [correction |-> "u16"]],
      [variant |-> "FrcError", status |-> "frc_error",
       fields |-> [detail |-> "String"]],
      [variant |-> "SetOffsetSuccess", status |-> "set_offset_success",
       fields |-> [offset |-> "f32"]],
      [variant |-> "SetOffsetError", status |-> "set_offset_error",
       fields |-> [detail |-> "String"]],
      [variant |-> "GetOffsetSuccess", status |-> "get_offset_success",
       fields |-> [offset |-> "f32"]],
      [variant |-> "GetOffsetError", status |-> "get_offset_error",
       fields |-> [detail |-> "String"]],
      [variant |-> "Alive", status |-> "alive",
       fields |-> [uptime_seconds |-> "u64"]] }

VariantOf(payload) == CHOOSE v \in DevicePayload : v.variant = payload.variant

\* DeviceMessage::new
DeviceMessage(device, payload) == [device |-> device, payload |-> payload]

\* serde_json's Serializer on a field: integers and finite floats as numbers, a
\* float that is not finite as null, a String as a string.
SerializeField(type, value) ==
    IF type = "String" THEN JString(value)
    ELSE IF type = "f32" /\ value = NaN THEN JNull
    ELSE JNumber(value)

\* to_json with the variant's own name under the tag, its rename left out.
to_json_variant_name(msg) ==
    LET v == VariantOf(msg.payload)
    IN  << [k \in {"device", "status"} \cup DOMAIN v.fields |->
               IF k = "device" THEN JString(msg.device)
               ELSE IF k = "status" THEN JString(v.variant)
               ELSE SerializeField(v.fields[k], msg.payload[k])] >>

\* DeviceMessage::to_json: one object holding "device", the variant's rename
\* under the tag "status", and, flattened into the same object, the variant's
\* fields.  Serialising these types never fails; <<json>> is Ok(json).
to_json(msg) ==
    LET v == VariantOf(msg.payload)
    IN  << [k \in {"device", "status"} \cup DOMAIN v.fields |->
               IF k = "device" THEN JString(msg.device)
               ELSE IF k = "status" THEN JString(v.status)
               ELSE SerializeField(v.fields[k], msg.payload[k])] >>

\* serde's Deserialize for a field: an unsigned integer takes a number that is
\* not negative (and fits: the model's numbers stay below the limits of u32 and
\* u64), an f32 takes any number, a String takes a string; null is none of them.
DeserializesAs(type, j) ==
    CASE type = "String" -> j.t = "string"
      [] type = "f32" -> j.t = "number"
      [] type = "u16" -> j.t = "number" /\ j.n >= 0 /\ j.n <= 65535
      [] OTHER -> j.t = "number" /\ j.n >= 0

DeserializeField(type, j) == IF type = "String" THEN j.s ELSE j.n

\* DeviceMessage::from_json: "device" must be a string, the tag "status" must be
\* the rename of a variant, and every field of that variant must be present in
\* the object with a value of its type; other keys are ignored.  <<>> is Err.
from_json(json) ==
    IF /\ "device" \in DOMAIN json /\ json["device"].t = "string"
       /\ "status" \in DOMAIN json /\ json["status"].t = "string"
       /\ \E v \in DevicePayload :
             /\ v.status = json["status"].s
             /\ \A k \in DOMAIN v.fields :
                   k \in DOMAIN json /\ DeserializesAs(v.fields[k], json[k])
    THEN LET v == CHOOSE v \in DevicePayload : v.status = json["status"].s
         IN  << DeviceMessage(json["device"].s,
                    [k \in {"variant"} \cup DOMAIN v.fields |->
                        IF k = "variant" THEN v.variant
                        ELSE DeserializeField(v.fields[k], json[k])]) >>
    ELSE <<>>

\* #[derive(PartialEq)] on DeviceMessage and DevicePayload: the same device, the
\* same variant and equal fields, a NaN being equal to nothing.
MessageEq(a, b) ==
    /\ a.device = b.device
    /\ a.payload.variant = b.payload.variant
    /\ \A k \in DOMAIN VariantOf(a.payload).fields :
          /\ a.payload[k] = b.payload[k]
          /\ VariantOf(a.payload).fields[k] = "f32" => a.payload[k] # NaN

\* No message taken up yet.
NoEnvelope == [phase |-> "none", msg |-> <<>>, json |-> <<>>, back |-> <<>>]

-----------------------------------------------------------------------------
(* The firmware of the ESP32 (esp32-firmware/src/main.rs) and the command      *)
(* topic it shares with the commander (rpi-commander/src/main.rs).  One run of *)
(* main is one wake cycle: deep sleep restarts the program.  A command is a    *)
(* record [id, cmd]: cmd is the variant of DeviceCommand and id numbers the    *)
(* commander's publications, 0 being the NoOp main makes up on a timeout.      *)
(* firmware.log lists what the device did in the current wake cycle;           *)
(* firmware.executed lists, over all cycles, the ids of the commands a handler *)
(* was run for.                                                                *)

\* DeviceCommand::NoOp as main substitutes it when recv_timeout returns Err.
NoOpCommand == [id |-> 0, cmd |-> "NoOp"]

\* The device before its first wake cycle.
PoweredOff ==
    [ pc |-> "asleep", cycle |-> 0, channel |-> <<>>, command |-> NoOpCommand,
      log |-> <<>>, executed |-> <<>>, attempts |-> 0, polls |-> <<>>,
      data |-> <<>>, failure_reason |-> 0, measuring |-> FALSE, payload |-> <<>> ]

\* The command topic with nothing retained and nothing published yet.
NoTraffic == [ retained |-> <<>>, published |-> <<>> ]

\* The program starts: the MQTT thread is spawned, the client subscribes to the
\* command topic, and the broker hands the retained message of the topic, if
\* there is one, to the subscriber; the MQTT thread sends it into the channel.
wake(fw, b) ==
    [fw EXCEPT !.pc = "listening", !.cycle = @ + 1, !.channel = b.retained,
               !.command = NoOpCommand, !.log = <<>>, !.attempts = 0,
               !.polls = <<>>, !.data = <<>>, !.failure_reason = 0,
               !.measuring = FALSE, !.payload = <<>>]

\* cmd_rx.recv_timeout(1 s) and the match on it: the first command of the
\* channel, or NoOp when none is there.
recv_timeout(fw) ==
    IF fw.channel # <<>>
    THEN [fw EXCEPT !.command = Head(fw.channel), !.channel = Tail(fw.channel),
                    !.log = Append(@, "recv"), !.pc = "received"]
    ELSE [fw EXCEPT !.command = NoOpCommand, !.pc = "received"]

\* `if !matches!(command, DeviceCommand::NoOp)` with every command cleared.
must_clear_always(command) == TRUE

\* `if !matches!(command, DeviceCommand::NoOp)`.
must_clear(command) == command.cmd # "NoOp"

\* clear_retained_command on the broker: an empty retained publish removes the
\* retained message of the topic, whichever it is; a failed publish leaves it.
clear_retained_command(b, ok) ==
    IF ok THEN [b EXCEPT !.retained = <<>>] ELSE b

\* Commander::send_command on the broker: a retained publish replaces the
\* retained message of the topic.
send_command(b, command) ==
    [b EXCEPT !.retained = <<command>>, !.published = Append(@, command)]

\* The sensor reading of the model.
SensorData == [co2 |-> 450, temperature |-> 22, humidity |-> 45]

\* start_periodic_measurement(scd40)? at the head of perform_measurement.
start_measurement(fw, ok) ==
    IF ok THEN [fw EXCEPT !.measuring = TRUE, !.log = Append(@, "start"),
                          !.pc = "polling"]
    ELSE [fw EXCEPT !.log = Append(@, "start"), !.pc = "failed"]

\* One evaluation of the while condition of perform_measurement and, when it
\* holds, the body: `ready` is data_ready_status().unwrap_or(false).
poll(fw, ready) ==
    LET polled == [fw EXCEPT !.polls = Append(@, ready)]
    IN  IF ~ready /\ fw.attempts < MAX_ATTEMPTS
        THEN [polled EXCEPT !.attempts = @ + 1]
        ELSE [polled EXCEPT !.pc = "polled"]

\* `let data = if attempts >= MAX_ATTEMPTS {..} else { match scd40.measurement()
\* {..} }` with the function returning the timeout error at once, the sensor
\* left measuring.
read_measurement_returning_early(fw, ok) ==
    IF fw.attempts >= MAX_ATTEMPTS
    THEN [fw EXCEPT !.failure_reason = 1, !.data = <<>>, !.pc = "publishing",
                    !.payload = <<[variant |-> "Error",
                                   detail |-> "Measurement timed out"]>>]
    ELSE IF ok
         THEN [fw EXCEPT !.data = <<SensorData>>, !.log = Append(@, "read"),
                         !.pc = "stopping"]
         ELSE [fw EXCEPT !.failure_reason = 2, !.data = <<>>,
                         !.log = Append(@, "read"), !.pc = "stopping"]

\* `let data = if attempts >= MAX_ATTEMPTS {..} else { match scd40.measurement()
\* {..} }`: the timeout, or the read with its outcome ok.
read_measurement(fw, ok) ==
    IF fw.attempts >= MAX_ATTEMPTS
    THEN [fw EXCEPT !.failure_reason = 1, !.data = <<>>, !.pc = "stopping"]
    ELSE IF ok
         THEN [fw EXCEPT !.data = <<SensorData>>, !.log = Append(@, "read"),
                         !.pc = "stopping"]
         ELSE [fw EXCEPT !.failure_reason = 2, !.data = <<>>,
                         !.log = Append(@, "read"), !.pc = "stopping"]

\* stop_periodic_measurement(scd40)?: the call is made; when it fails the sensor
\* keeps measuring and perform_measurement returns the error.
stop_measurement(fw, ok) ==
    IF ok THEN [fw EXCEPT !.measuring = FALSE, !.log = Append(@, "stop"),
                          !.pc = "building"]
    ELSE [fw EXCEPT !.log = Append(@, "stop"), !.pc = "failed"]

\* The payload perform_measurement returns (lines 169-186).
build_payload(fw) ==
    LET final_mqtt_message ==
            IF fw.data # <<>>
            THEN [variant |-> "MeasurementSuccess", co2 |-> fw.data[1].co2,
                  temperature |-> fw.data[1].temperature,
                  humidity |-> fw.data[1].humidity]
            ELSE IF fw.failure_reason = 1
                 THEN [variant |-> "Error", detail |-> "Measurement timed out"]
                 ELSE [variant |-> "Error", detail |-> "Failed to read measurement"]
    IN  [fw EXCEPT !.payload = <<final_mqtt_message>>,
                   !.log = Append(@, "build"), !.pc = "publishing"]

\* The handlers of the commands other than NoOp, each as one step.  perform_frc
\* publishes its progress and returns Err when the sensor fails to start or to
\* stop; outcome is "ok", "error" (the error payload) or "err" (Err returned).
\* perform_set_temp_offset and perform_get_temp_offset always return a payload.
run_handler(fw, outcome) ==
    CASE fw.command.cmd = "StartFrc" ->
            IF outcome = "err"
            THEN [fw EXCEPT !.log = Append(@, "progress"), !.pc = "failed"]
            ELSE [fw EXCEPT
                    !.log = @ \o <<"progress", "progress", "progress">>,
                    !.payload = IF outcome = "ok"
                                THEN <<[variant |-> "FrcSuccess", correction |-> 12]>>
                                ELSE <<[variant |-> "FrcError", detail |-> "frc"]>>,
                    !.pc = "publishing"]
      [] fw.command.cmd = "SetTempOffset" ->
            [fw EXCEPT
                !.payload = IF outcome = "ok"
                            THEN <<[variant |-> "SetOffsetSuccess", offset |-> 4]>>
                            ELSE <<[variant |-> "SetOffsetError",
                                    detail |-> "failed_to_set"]>>,
                !.pc = "publishing"]
      [] OTHER ->
            [fw EXCEPT
                !.payload = IF outcome = "ok"
                            THEN <<[variant |-> "GetOffsetSuccess", offset |-> 4]>>
                            ELSE <<[variant |-> "GetOffsetError",
                                    detail |-> "failed_to_get"]>>,
                !.pc = "publishing"]

\* The match on the command (lines 437-444): the handler of the command starts.
dispatch(fw) ==
    [fw EXCEPT !.executed = Append(@, fw.command.id),
               !.log = Append(@, "handler"),
               !.pc = IF fw.command.cmd = "NoOp" THEN "starting" ELSE "handling"]

-----------------------------------------------------------------------------
(* The state machine. *)

TheDetector ==
    Detector(config, current_day_stats, historical_daily_stats, recent_measurements)

Measurement(t, temp, hum, co2) ==
    [ co2 |-> co2, temperature |-> temp, humidity |-> hum, time |-> t,
      device |-> "esp32" ]

\* A second configuration (AnomalyDetector::with_config): every threshold differs
\* from the default.
AltConfig ==
    [ humidity_definite_anomaly   |-> 65,
      humidity_suspicious         |-> 66,
      temp_above_daily_min        |-> 6,
      temp_absolute_min_for_spike |-> 14,
      daylight_start_hour         |-> 5,
      daylight_end_hour           |-> 17,
      co2_spike_threshold         |-> 650 ]

Configs == {DefaultConfig, AltConfig}

InitWith(cs) ==
    /\ config \in cs
    /\ current_day_stats = DailyStatsNew
    /\ historical_daily_stats = <<>>
    /\ recent_measurements = <<>>
    /\ flags = DefaultFlags
    /\ baseline = <<>>
    /\ input = <<>>
    /\ outputs = <<>>
    /\ probed = FALSE
    /\ batch_result = <<>>
    /\ profile_batch = <<>>
    /\ panicked = FALSE
    /\ persist = NotPersisting
    /\ envelope = NoEnvelope
    /\ firmware = PoweredOff
    /\ broker = NoTraffic

Init == InitWith(Configs)

\* One call detector.analyze(&m, false).  A call that panics returns nothing: the
\* detector keeps what lines 245-250 did to it and the stream ends there.
Analyze(m) ==
    /\ ~panicked
    /\ \E r \in {analyze(TheDetector, m)} :
        /\ config' = r.det.config
        /\ current_day_stats' = r.det.current_day_stats
        /\ historical_daily_stats' = r.det.historical_daily_stats
        /\ recent_measurements' = r.det.recent_measurements
        /\ input' = Append(input, m)
        /\ panicked' = r.panicked
        /\ IF r.panicked
           THEN UNCHANGED <<flags, baseline, outputs>>
           ELSE /\ flags' = r.flags
                /\ baseline' = get_pre_sunlight_baseline(r.det, m.time)
                /\ outputs' = Append(outputs, r.flags)
        /\ UNCHANGED <<batch_result, profile_batch, persist, envelope,
                   firmware, broker>>

\* One call analyze_historical_data(&input, Some(config)) on the measurements the
\* stream detector was given.
AnalyzeHistorical ==
    /\ ~panicked
    /\ batch_result = <<>>
    /\ \E b \in {analyze_historical_data(input, config)} :
        IF "panicked" \in DOMAIN b
        THEN panicked' = TRUE /\ UNCHANGED batch_result
        ELSE batch_result' = <<b>> /\ UNCHANGED panicked
    /\ UNCHANGED <<config, current_day_stats, historical_daily_stats,
                   recent_measurements, flags, baseline, input, outputs, probed,
                   profile_batch, persist, envelope,
                   firmware, broker>>

\* One call detector.build_profile(&input) on the measurements the stream detector
\* was given so far.
BuildProfile ==
    /\ ~panicked
    /\ profile_batch = <<>>
    /\ historical_daily_stats' =
            build_profile(TheDetector, input).historical_daily_stats
    /\ profile_batch' = <<input>>
    /\ UNCHANGED <<config, current_day_stats, recent_measurements, flags, baseline,
                   input, outputs, probed, batch_result, panicked, persist,
                   envelope, firmware, broker>>

\* The driver has its anomaly_batch of n flagged records and enters the chunk loop
\* with the chunk size of mark_historical_data or of run_anomaly_test_matrix.
StartPersist ==
    /\ persist.status = "idle"
    /\ \E n \in 0..MaxRecords, size \in {BATCH_SIZE, MATRIX_CHUNK_SIZE} :
          persist' = [ status |-> "writing", chunk_size |-> size,
                       anomaly_batch |-> [i \in 1..n |-> i],
                       offset |-> 0, posted |-> <<>> ]
    /\ UNCHANGED <<config, current_day_stats, historical_daily_stats,
                   recent_measurements, flags, baseline, input, outputs, probed,
                   batch_result, profile_batch, panicked, envelope,
                   firmware, broker>>

\* One iteration of the chunk loop, the write succeeding or failing.
SaveChunk ==
    /\ persist.status = "writing"
    /\ persist.offset < Len(persist.anomaly_batch)
    /\ \E ok \in BOOLEAN : persist' = save_chunk(persist, ok)
    /\ UNCHANGED <<config, current_day_stats, historical_daily_stats,
                   recent_measurements, flags, baseline, input, outputs, probed,
                   batch_result, profile_batch, panicked, envelope,
                   firmware, broker>>

\* The loop has run out of chunks: the driver returns Ok(()).
FinishPersist ==
    /\ persist.status = "writing"
    /\ persist.offset = Len(persist.anomaly_batch)
    /\ persist' = [persist EXCEPT !.status = "ok"]
    /\ UNCHANGED <<config, current_day_stats, historical_daily_stats,
                   recent_measurements, flags, baseline, input, outputs, probed,
                   batch_result, profile_batch, panicked, envelope,
                   firmware, broker>>

(* Main specification: a warm-up feed of up to MaxFeed readings taken at 06:00 *)
(* (10 C) and 08:00 (18 C), then one measurement under test drawn from the     *)
(* product of hours, humidities, temperatures and CO2 values around the        *)
(* thresholds of both configurations.                                          *)

FeedInputs == { Measurement(6, 10, 70, 400), Measurement(8, 18, 70, 400) }

ProbeHours == {5, 6, 18, 19}
ProbeHumidities == {55, 56, 65, 66}
ProbeTemperatures == {10, 18}
ProbeCo2 == {699, 700}

ProbeInputs ==
    { Measurement(t, temp, hum, co2) :
        t \in ProbeHours, temp \in ProbeTemperatures,
        hum \in ProbeHumidities, co2 \in ProbeCo2 }

Feed ==
    /\ ~probed
    /\ Len(input) < MaxFeed
    /\ \E m \in FeedInputs : Analyze(m)
    /\ UNCHANGED probed

Probe ==
    /\ ~probed
    /\ \E m \in ProbeInputs : Analyze(m)
    /\ probed' = TRUE

Next == Feed \/ Probe

Spec == Init /\ [][Next]_vars

(* Baseline specification: a stream of up to MaxLong readings of one day under  *)
(* the default configuration (06:00 at 10 C and at 18 C, 08:00 at 12 C), which  *)
(* a stray reading dated 05:00 of the next day may precede.                     *)

LongInputs ==
    { Measurement(6, 10, 70, 400), Measurement(6, 18, 62, 400),
      Measurement(8, 12, 70, 400) }

StrayInput == Measurement(29, 5, 70, 400)

InitDefault == InitWith({DefaultConfig})

Stream ==
    /\ Len(input) < MaxLong
    /\ \E m \in LongInputs : Analyze(m)
    /\ UNCHANGED probed

Stray ==
    /\ input = <<>>
    /\ Analyze(StrayInput)
    /\ UNCHANGED probed

NextLong == Stream \/ Stray

SpecLong == InitDefault /\ [][NextLong]_vars

(* Replay specification: a stream of up to MaxReplay readings over two days, *)
(* and the batch driver run on the readings streamed so far.                 *)

ReplayInputs ==
    { Measurement(6, 10, 70, 400), Measurement(6, 18, 62, 400),
      Measurement(8, 12, 50, 700), Measurement(30, 18, 70, 400) }

Replay ==
    /\ batch_result = <<>>
    /\ Len(input) < MaxReplay
    /\ \E m \in ReplayInputs : Analyze(m)
    /\ UNCHANGED probed

NextReplay == Replay \/ AnalyzeHistorical

SpecReplay == Init /\ [][NextReplay]_vars

(* Scenario specification: the end-to-end scenario of the default configuration: *)
(* night readings at 30 %, 10 C, 400 ppm, then one 10:00 reading of the same day. *)

NightHours == {4, 5, 19}

NightInputs == { Measurement(t, 10, 30, 400) : t \in NightHours }

TenAmDefinite == Measurement(10, 20, 50, 420)

TenAmSuspicious == Measurement(10, 18, 62, 420)

Night ==
    /\ ~probed
    /\ Len(input) < MaxScenario - 1
    /\ \E m \in NightInputs : Analyze(m)
    /\ UNCHANGED probed

TenAm ==
    /\ ~probed
    /\ \E m \in {TenAmDefinite, TenAmSuspicious} : Analyze(m)
    /\ probed' = TRUE

NextScenario == Night \/ TenAm

SpecScenario == InitDefault /\ [][NextScenario]_vars

(* Days specification: a stream of up to MaxDays readings of two days, in any   *)
(* order (05:00, 08:00 and 09:00 of the first day, 05:00 and 08:00 of the       *)
(* second), and one build_profile call on the readings streamed so far.         *)

DayInputs ==
    { Measurement(5, 10, 70, 400), Measurement(8, 18, 50, 400),
      Measurement(9, 12, 60, 400), Measurement(29, 14, 65, 400),
      Measurement(32, 20, 40, 700) }

Arrive ==
    /\ Len(input) < MaxDays
    /\ \E m \in DayInputs : Analyze(m)
    /\ UNCHANGED probed

NextDays == Arrive \/ BuildProfile

SpecDays == InitDefault /\ [][NextDays]_vars

(* Non-finite specification: a stream of up to MaxNaN readings of one morning, *)
(* some of which carry a NaN temperature.                                      *)

NaNInputs ==
    { Measurement(4, 10, 70, 400), Measurement(5, NaN, 70, 400),
      Measurement(6, NaN, 62, 400), Measurement(6, 18, 62, 400) }

Sample ==
    /\ Len(input) < MaxNaN
    /\ \E m \in NaNInputs : Analyze(m)
    /\ UNCHANGED probed

NextNaN == Sample

SpecNaN == InitDefault /\ [][NextNaN]_vars

(* Devices specification: the rows of two devices as the query of                *)
(* fetch_historical_measurements returns them, all devices in one sequence       *)
(* (there is no WHERE on device): a stream of up to MaxDevices readings, and the *)
(* batch driver run on them.                                                     *)

MeasurementOf(dev, t, temp, hum, co2) ==
    [Measurement(t, temp, hum, co2) EXCEPT !.device = dev]

DeviceInputs ==
    { MeasurementOf("esp32-b", 5, 10, 70, 400),
      MeasurementOf("esp32-a", 6, 18, 62, 400),
      MeasurementOf("esp32-a", 6, 10, 70, 400) }

Deliver ==
    /\ batch_result = <<>>
    /\ Len(input) < MaxDevices
    /\ \E m \in DeviceInputs : Analyze(m)
    /\ UNCHANGED probed

NextDevices == Deliver \/ AnalyzeHistorical

SpecDevices == InitDefault /\ [][NextDevices]_vars

(* Morning specification: a stream of up to MaxMorning readings of one day in *)
(* timestamp order, from the early morning (06:00) to the late morning.       *)

MorningInputs ==
    { Measurement(6, 10, 70, 400), Measurement(9, 12, 70, 400),
      Measurement(10, 20, 62, 420), Measurement(12, 15, 70, 400) }

Forenoon ==
    /\ Len(input) < MaxMorning
    /\ \E m \in MorningInputs :
          /\ input # <<>> => m.time >= input[Len(input)].time
          /\ Analyze(m)
    /\ UNCHANGED probed

NextMorning == Forenoon

SpecMorning == InitDefault /\ [][NextMorning]_vars

(* Persistence specification: the chunk loop over a batch of up to MaxRecords *)
(* flagged records, each write succeeding or failing.                         *)

NextPersist == StartPersist \/ SaveChunk \/ FinishPersist

SpecPersist == InitDefault /\ [][NextPersist]_vars

(* Envelope specification: a message of any variant, from any of the device *)
(* names, is serialised by to_json and the JSON is read back by from_json.  *)

Devices == {"esp32-scd40", "esp32-test", ""}

Details == {"Sensor timeout", ""}

\* The payloads of the envelope specification: every variant, its floats finite
\* or NaN.
Payloads ==
    { [variant |-> "MeasurementSuccess", co2 |-> c, temperature |-> 22, humidity |-> h] :
          c \in {0, 450}, h \in {45, NaN} }
    \cup { [variant |-> v, detail |-> d] :
          v \in {"Error", "FrcWarmupComplete", "FrcError", "SetOffsetError",
                 "GetOffsetError"}, d \in Details }
    \cup { [variant |-> v, target_ppm |-> t] :
          v \in {"FrcStart", "FrcCalibrating"}, t \in {0, 422} }
    \cup { [variant |-> "FrcSuccess", correction |-> c] : c \in {0, 12} }
    \cup { [variant |-> v, offset |-> o] :
          v \in {"SetOffsetSuccess", "GetOffsetSuccess"}, o \in {0 - 4, 0, NaN} }
    \cup { [variant |-> "Alive", uptime_seconds |-> u] : u \in {0, 3600} }

Compose ==
    /\ envelope.phase = "none"
    /\ \E d \in Devices, p \in Payloads :
          envelope' = [envelope EXCEPT !.phase = "composed",
                                       !.msg = <<DeviceMessage(d, p)>>]
    /\ UNCHANGED <<config, current_day_stats, historical_daily_stats,
                   recent_measurements, flags, baseline, input, outputs, probed,
                   batch_result, profile_batch, panicked, persist,
                   firmware, broker>>

ToJson ==
    /\ envelope.phase = "composed"
    /\ envelope' = [envelope EXCEPT !.phase = "serialised",
                                    !.json = to_json(envelope.msg[1])]
    /\ UNCHANGED <<config, current_day_stats, historical_daily_stats,
                   recent_measurements, flags, baseline, input, outputs, probed,
                   batch_result, profile_batch, panicked, persist,
                   firmware, broker>>

FromJson ==
    /\ envelope.phase = "serialised"
    /\ envelope.json # <<>>
    /\ envelope' = [envelope EXCEPT !.phase = "parsed",
                                    !.back = from_json(envelope.json[1])]
    /\ UNCHANGED <<config, current_day_stats, historical_daily_stats,
                   recent_measurements, flags, baseline, input, outputs, probed,
                   batch_result, profile_batch, panicked, persist,
                   firmware, broker>>

NextEnvelope == Compose \/ ToJson \/ FromJson

SpecEnvelope == InitDefault /\ [][NextEnvelope]_vars

(* Firmware specification: up to MaxCycles wake cycles of the device, the    *)
(* commander publishing up to MaxCommands commands at any moment, the sensor *)
(* and the MQTT client succeeding or failing at every call.                  *)

CommandKinds == {"NoOp", "StartFrc", "SetTempOffset", "GetTempOffset"}

\* The device leaves deep sleep and main runs up to the subscription.
Wake ==
    /\ firmware.pc = "asleep"
    /\ firmware.cycle < MaxCycles
    /\ firmware' = wake(firmware, broker)
    /\ UNCHANGED <<config, current_day_stats, historical_daily_stats,
                   recent_measurements, flags, baseline, input, outputs, probed,
                   batch_result, profile_batch, panicked, persist, envelope, broker>>

\* The operator has the commander publish a command; a device that is
\* subscribed gets it from the broker and its MQTT thread sends it into the
\* channel.
SendCommand ==
    /\ Len(broker.published) < MaxCommands
    /\ \E kind \in CommandKinds :
          LET command == [id |-> Len(broker.published) + 1, cmd |-> kind]
          IN  /\ broker' = send_command(broker, command)
              /\ firmware' =
                    IF firmware.pc \in {"asleep", "failed"}
                    THEN firmware
                    ELSE [firmware EXCEPT !.channel = Append(@, command)]
    /\ UNCHANGED <<config, current_day_stats, historical_daily_stats,
                   recent_measurements, flags, baseline, input, outputs, probed,
                   batch_result, profile_batch, panicked, persist, envelope>>

\* Lines 412-425.
TakeCommand ==
    /\ firmware.pc = "listening"
    /\ firmware' = recv_timeout(firmware)
    /\ UNCHANGED <<config, current_day_stats, historical_daily_stats,
                   recent_measurements, flags, baseline, input, outputs, probed,
                   batch_result, profile_batch, panicked, persist, envelope, broker>>

\* Lines 430-435: the retained command is cleared unless the command is NoOp;
\* a failure of the publish is logged and main goes on.
ClearRetained ==
    /\ firmware.pc = "received"
    /\ IF must_clear(firmware.command)
       THEN \E ok \in BOOLEAN :
               /\ broker' = clear_retained_command(broker, ok)
               /\ firmware' = [firmware EXCEPT !.log = Append(@, "clear"),
                                               !.pc = "cleared"]
       ELSE /\ firmware' = [firmware EXCEPT !.pc = "cleared"]
            /\ UNCHANGED broker
    /\ UNCHANGED <<config, current_day_stats, historical_daily_stats,
                   recent_measurements, flags, baseline, input, outputs, probed,
                   batch_result, profile_batch, panicked, persist, envelope>>

\* Lines 437-444: the handler of the command is called.
Dispatch ==
    /\ firmware.pc = "cleared"
    /\ firmware' = dispatch(firmware)
    /\ UNCHANGED <<config, current_day_stats, historical_daily_stats,
                   recent_measurements, flags, baseline, input, outputs, probed,
                   batch_result, profile_batch, panicked, persist, envelope, broker>>

\* perform_frc, perform_set_temp_offset or perform_get_temp_offset.
RunHandler ==
    /\ firmware.pc = "handling"
    /\ \E outcome \in {"ok", "error", "err"} :
          /\ outcome = "err" => firmware.command.cmd = "StartFrc"
          /\ firmware' = run_handler(firmware, outcome)
    /\ UNCHANGED <<config, current_day_stats, historical_daily_stats,
                   recent_measurements, flags, baseline, input, outputs, probed,
                   batch_result, profile_batch, panicked, persist, envelope, broker>>

\* perform_measurement, line 129.
StartMeasurement ==
    /\ firmware.pc = "starting"
    /\ \E ok \in BOOLEAN : firmware' = start_measurement(firmware, ok)
    /\ UNCHANGED <<config, current_day_stats, historical_daily_stats,
                   recent_measurements, flags, baseline, input, outputs, probed,
                   batch_result, profile_batch, panicked, persist, envelope, broker>>

\* perform_measurement, lines 133-140.
Poll ==
    /\ firmware.pc = "polling"
    /\ \E ready \in BOOLEAN : firmware' = poll(firmware, ready)
    /\ UNCHANGED <<config, current_day_stats, historical_daily_stats,
                   recent_measurements, flags, baseline, input, outputs, probed,
                   batch_result, profile_batch, panicked, persist, envelope, broker>>

\* perform_measurement, lines 142-165.
ReadMeasurement ==
    /\ firmware.pc = "polled"
    /\ \E ok \in BOOLEAN : firmware' = read_measurement(firmware, ok)
    /\ UNCHANGED <<config, current_day_stats, historical_daily_stats,
                   recent_measurements, flags, baseline, input, outputs, probed,
                   batch_result, profile_batch, panicked, persist, envelope, broker>>

\* perform_measurement, line 167.
StopMeasurement ==
    /\ firmware.pc = "stopping"
    /\ \E ok \in BOOLEAN : firmware' = stop_measurement(firmware, ok)
    /\ UNCHANGED <<config, current_day_stats, historical_daily_stats,
                   recent_measurements, flags, baseline, input, outputs, probed,
                   batch_result, profile_batch, panicked, persist, envelope, broker>>

\* perform_measurement, lines 169-186.
BuildPayload ==
    /\ firmware.pc = "building"
    /\ firmware' = build_payload(firmware)
    /\ UNCHANGED <<config, current_day_stats, historical_daily_stats,
                   recent_measurements, flags, baseline, input, outputs, probed,
                   batch_result, profile_batch, panicked, persist, envelope, broker>>

\* Line 446: publish_device_payload with the payload the handler returned; its
\* result is dropped.
PublishFinal ==
    /\ firmware.pc = "publishing"
    /\ firmware' = [firmware EXCEPT !.log = Append(@, "final"), !.pc = "published"]
    /\ UNCHANGED <<config, current_day_stats, historical_daily_stats,
                   recent_measurements, flags, baseline, input, outputs, probed,
                   batch_result, profile_batch, panicked, persist, envelope, broker>>

\* Lines 448-460: esp_deep_sleep; the program and its channel are gone.
DeepSleep ==
    /\ firmware.pc = "published"
    /\ firmware' = [firmware EXCEPT !.log = Append(@, "sleep"), !.channel = <<>>,
                                    !.pc = "asleep"]
    /\ UNCHANGED <<config, current_day_stats, historical_daily_stats,
                   recent_measurements, flags, baseline, input, outputs, probed,
                   batch_result, profile_batch, panicked, persist, envelope, broker>>

NextFirmware ==
    \/ Wake \/ SendCommand \/ TakeCommand \/ ClearRetained \/ Dispatch
    \/ RunHandler \/ StartMeasurement \/ Poll \/ ReadMeasurement
    \/ StopMeasurement \/ BuildPayload \/ PublishFinal \/ DeepSleep

SpecFirmware == InitDefault /\ [][NextFirmware]_vars

-----------------------------------------------------------------------------
(* Properties.  The measurement a property speaks of is the one analysed last; *)
(* its hour, the daylight test and the thresholds are written out here rather  *)
(* than taken from the operators above.                                        *)

Analysed == input # <<>>

measurement == input[Len(input)]

HourOfDay == measurement.time % 24

WithinDaylight ==
    config.daylight_start_hour <= HourOfDay /\ HourOfDay <= config.daylight_end_hour

\* C1: a measurement with humidity at or below the definite cutoff, taken within
\* the daylight hours, gets humidity_spike and possible_sunlight, whatever its
\* temperature and CO2 and whatever the window holds.
C1_DefiniteHumidityInDaylight ==
    (Analysed /\ measurement.humidity <= config.humidity_definite_anomaly
              /\ WithinDaylight)
        => (flags.humidity_spike /\ flags.possible_sunlight)

\* C1 witness: a cold, low-CO2 reading at the definite cutoff in daylight, analysed
\* on a full window that yields a baseline.
C1_Witness ==
    /\ probed
    /\ measurement.humidity = config.humidity_definite_anomaly
    /\ WithinDaylight
    /\ measurement.temperature = 10
    /\ measurement.co2 = 699
    /\ Len(recent_measurements) >= 10
    /\ baseline # <<>>
    /\ flags.humidity_spike /\ flags.possible_sunlight /\ ~flags.temperature_spike

\* C2: co2_spike is set exactly when the measurement's CO2 is at or above the
\* configured threshold, at any hour, with or without a baseline.
C2_Co2SpikeIffThreshold ==
    Analysed => (flags.co2_spike <=> measurement.co2 >= config.co2_spike_threshold)

\* C2 witness: a night reading with no baseline whose CO2 equals the threshold:
\* co2_spike is the only flag set.
C2_Witness ==
    /\ probed
    /\ ~WithinDaylight
    /\ baseline = <<>>
    /\ measurement.co2 = config.co2_spike_threshold
    /\ flags.co2_spike
    /\ ~flags.temperature_spike /\ ~flags.humidity_spike /\ ~flags.possible_sunlight

\* The flagged records of the stream: (time, flags, device) of every analysed
\* measurement with at least one of the four flags set, in input order.
StreamRecords == [i \in 1..Len(input) |-> <<input[i].time, outputs[i], input[i].device>>]

StreamFlagged ==
    SelectSeq(StreamRecords,
              LAMBDA e : \/ e[2].temperature_spike \/ e[2].humidity_spike
                         \/ e[2].co2_spike \/ e[2].possible_sunlight)

\* C3: the records analyze_historical_data keeps for a measurement sequence (which
\* measurements it flags, and with which flags) are those of calling analyze one
\* measurement at a time, in the same order, on a fresh detector with the same
\* configuration that never ran build_profile.
C3_BatchEqualsStream ==
    batch_result # <<>> => batch_result[1].anomaly_timestamps = StreamFlagged

\* C3 witness: a batch over two calendar days (build_profile stored two profiles)
\* with a temperature spike among its records and an unflagged measurement.
C3_Witness ==
    /\ batch_result # <<>>
    /\ Len(input) >= 4
    /\ Len(BuildProfileLoop(input, <<>>, DailyStatsNew)) >= 2
    /\ historical_daily_stats = <<>>
    /\ Len(batch_result[1].anomaly_timestamps) >= 2
    /\ Len(batch_result[1].anomaly_timestamps) < Len(input)
    /\ \E i \in 1..Len(batch_result[1].anomaly_timestamps) :
           batch_result[1].anomaly_timestamps[i][2].temperature_spike

\* The night readings and the 10:00 reading of the end-to-end scenario.
IsScenarioNight(m) ==
    /\ m.humidity = 30 /\ m.temperature = 10 /\ m.co2 = 400
    /\ (m.time % 24 < 6 \/ m.time % 24 > 18)
    /\ m.time \div 24 = 0

IsScenarioTenAm(m) ==
    m.time = 10 /\ m.temperature = 18 /\ m.humidity = 62 /\ m.co2 = 420

\* C5: with the default configuration, after five night readings at 30 %, 10 C,
\* 400 ppm, the 10:00 reading of the same day at 18 C, 62 %, 420 ppm gets
\* humidity_spike, temperature_spike and possible_sunlight.
C5_EndToEndScenario ==
    ( /\ Len(input) = 6
      /\ \A i \in 1..5 : IsScenarioNight(input[i])
      /\ IsScenarioTenAm(input[6]) )
        => (flags.humidity_spike /\ flags.temperature_spike /\ flags.possible_sunlight)

\* The corroboration of stage 2 as the specification states it, for the
\* measurement analysed last and the baseline of that call.
Corroborated ==
    /\ measurement.humidity <= config.humidity_suspicious
    /\ \/ /\ baseline # <<>>
          /\ measurement.temperature - baseline[1] >= config.temp_above_daily_min
          /\ measurement.temperature >= config.temp_absolute_min_for_spike
       \/ /\ baseline = <<>>
          /\ WithinDaylight
          /\ measurement.temperature >= config.temp_absolute_min_for_spike

\* C6 as claimed: humidity exactly at the definite cutoff gets humidity_spike, and
\* humidity one unit above it never does.
C6_Original ==
    Analysed =>
        /\ (measurement.humidity = config.humidity_definite_anomaly
                => flags.humidity_spike)
        /\ (measurement.humidity = config.humidity_definite_anomaly + 1
                => ~flags.humidity_spike)

\* C6 as amended: humidity exactly at the definite cutoff gets humidity_spike in
\* every detector state; humidity one unit above it gets humidity_spike exactly
\* when the suspicious-humidity stage corroborates it.
C6_Amended ==
    Analysed =>
        /\ (measurement.humidity = config.humidity_definite_anomaly
                => flags.humidity_spike)
        /\ (measurement.humidity = config.humidity_definite_anomaly + 1
                => (flags.humidity_spike <=> Corroborated))

\* C6 witness: a daylight reading one unit above the cutoff, warm enough but not
\* risen above the baseline of a full window: no humidity_spike.
C6_Witness ==
    /\ probed
    /\ measurement.humidity = config.humidity_definite_anomaly + 1
    /\ measurement.humidity <= config.humidity_suspicious
    /\ WithinDaylight
    /\ baseline # <<>>
    /\ measurement.temperature >= config.temp_absolute_min_for_spike
    /\ ~flags.humidity_spike

\* C7: possible_sunlight is set only for a measurement whose hour lies within
\* [daylight_start_hour, daylight_end_hour].
C7_SunlightOnlyInDaylight ==
    (Analysed /\ flags.possible_sunlight) => WithinDaylight

\* C7 witness: outside the daylight hours temperature_spike and humidity_spike are
\* both set and possible_sunlight is not.
C7_Witness ==
    /\ probed
    /\ ~WithinDaylight
    /\ flags.temperature_spike /\ flags.humidity_spike
    /\ ~flags.possible_sunlight

\* The window entries of the current calendar day with hour below h.
EarlyEntries(h) ==
    { i \in 1..Len(recent_measurements) :
        /\ recent_measurements[i].time \div 24 = measurement.time \div 24
        /\ recent_measurements[i].time % 24 < h }

\* v is the element at index floor(n/2) (from 0) of the sorted temperatures of the
\* window entries in E.
IsMedianOf(v, E) ==
    /\ \E i \in E : recent_measurements[i].temperature = v
    /\ Cardinality({ i \in E : recent_measurements[i].temperature < v })
           <= Cardinality(E) \div 2
    /\ Cardinality({ i \in E : recent_measurements[i].temperature <= v })
           >= (Cardinality(E) \div 2) + 1

\* v is the least temperature of the window.
IsWindowMinimum(v) ==
    /\ \E i \in 1..Len(recent_measurements) : recent_measurements[i].temperature = v
    /\ \A i \in 1..Len(recent_measurements) : recent_measurements[i].temperature >= v

MedianCutoffIs(h) ==
    (Analysed /\ Len(recent_measurements) < 10) =>
        /\ baseline # <<>> <=> Cardinality(EarlyEntries(h)) >= 3
        /\ baseline # <<>> =>
               \E i \in EarlyEntries(h) : recent_measurements[i].temperature = baseline[1]

\* C10 as claimed: the early-morning cutoff is the configured daylight start hour.
C10_Original == MedianCutoffIs(config.daylight_start_hour)

\* C10 as amended: the early-morning cutoff is the fixed hour 7, whatever the
\* configured daylight start hour is: exactly the window entries of the current
\* day with hour < 7 count toward the early-morning median.
C10_Amended == MedianCutoffIs(7)

\* C10 witness: three or more entries of the current day at hours from the
\* configured daylight start on, none before it, and a baseline from them.
C10_Witness ==
    /\ Analysed
    /\ Len(recent_measurements) < 10
    /\ EarlyEntries(config.daylight_start_hour) = {}
    /\ Cardinality(EarlyEntries(7)) >= 3
    /\ baseline # <<>>

\* C11: after every analyze call, whatever the order of the input, every entry of
\* recent_measurements has a timestamp strictly greater than the timestamp of the
\* measurement just analysed minus 3 hours, and that measurement is in the window.
C11_WindowHorizon ==
    Analysed =>
        /\ \A i \in 1..Len(recent_measurements) :
               recent_measurements[i].time > measurement.time - 3
        /\ \E i \in 1..Len(recent_measurements) :
               recent_measurements[i] = measurement

\* C11 witness: a reading exactly three hours older than the measurement was
\* analysed before it, and the window still holds a reading dated later.
C11_Witness ==
    /\ Analysed
    /\ \E j \in 1..Len(input) : input[j].time = measurement.time - 3
    /\ \E i \in 1..Len(recent_measurements) :
           recent_measurements[i].time > measurement.time

WindowSorted ==
    \A i \in 1..(Len(recent_measurements) - 1) :
        recent_measurements[i].time <= recent_measurements[i + 1].time

InputSorted ==
    \A i \in 1..(Len(input) - 1) : input[i].time <= input[i + 1].time

\* C12 as claimed: after every analyze call the entries of recent_measurements are
\* in non-decreasing timestamp order, for every sequence of analysed measurements.
C12_Original == Analysed => WindowSorted

\* C12 as amended: analyze appends the measurement at the end of the window, so
\* the entries are in non-decreasing timestamp order after every call as long as
\* the measurements were analysed in non-decreasing timestamp order.
C12_Amended == (Analysed /\ InputSorted) => WindowSorted

\* C12 witness: an input in timestamp order, of which the window has dropped a
\* part and holds two entries or more of different timestamps.
C12_Witness ==
    /\ InputSorted
    /\ Len(recent_measurements) >= 2
    /\ Len(recent_measurements) < Len(input)
    /\ recent_measurements[1].time < recent_measurements[Len(recent_measurements)].time

\* The calendar day of a timestamp as DailyStats.date holds it: Some((year, ordinal)).
DayKey(t) == << <<t \div (24 * 365), ((t \div 24) % 365) + 1>> >>

\* C13: whenever the active profile has measurement_count > 0, temp_min <= temp_max
\* and humidity_min <= humidity_max, the last measurement fed lies within both
\* ranges, and date is the (year, day-of-year) of the last measurement fed.
C13_DailyProfileInvariant ==
    current_day_stats.measurement_count > 0 =>
        /\ current_day_stats.temp_min <= current_day_stats.temp_max
        /\ current_day_stats.humidity_min <= current_day_stats.humidity_max
        /\ current_day_stats.temp_min <= measurement.temperature
        /\ measurement.temperature <= current_day_stats.temp_max
        /\ current_day_stats.humidity_min <= measurement.humidity
        /\ measurement.humidity <= current_day_stats.humidity_max
        /\ current_day_stats.date = DayKey(measurement.time)

\* C13 witness: a profile of three readings or more, started after a reading of
\* another day, whose last reading is strictly inside both ranges.
C13_Witness ==
    /\ current_day_stats.measurement_count >= 3
    /\ Len(input) > current_day_stats.measurement_count
    /\ current_day_stats.temp_min < measurement.temperature
    /\ measurement.temperature < current_day_stats.temp_max
    /\ current_day_stats.humidity_min < measurement.humidity
    /\ measurement.humidity < current_day_stats.humidity_max

\* The measurement an analyze step feeds.
Fed == input'[Len(input')]

IsAnalyzeStep == Len(input') = Len(input) + 1

\* The measurement fed is of the active profile's day and within its ranges.
FedWithinProfile ==
    /\ current_day_stats.date = DayKey(Fed.time)
    /\ current_day_stats.temp_min <= Fed.temperature
    /\ Fed.temperature <= current_day_stats.temp_max
    /\ current_day_stats.humidity_min <= Fed.humidity
    /\ Fed.humidity <= current_day_stats.humidity_max

\* C14: feeding the measurement just fed a second time, and more generally feeding
\* a measurement of the profile's day whose values lie within the current ranges,
\* increments measurement_count by one and changes nothing else of the profile.
C14_InRangeOnlyCounts ==
    [][ (IsAnalyzeStep /\ ((Analysed /\ Fed = measurement) \/ FedWithinProfile)) =>
            current_day_stats' =
                [current_day_stats EXCEPT !.measurement_count = @ + 1] ]_vars

\* C14 witness: the last measurement was fed twice in a row, into a profile whose
\* ranges it lies strictly inside.
C14_Witness ==
    /\ Len(input) >= 2
    /\ input[Len(input)] = input[Len(input) - 1]
    /\ current_day_stats.measurement_count >= 4
    /\ current_day_stats.temp_min < measurement.temperature
    /\ measurement.temperature < current_day_stats.temp_max
    /\ current_day_stats.humidity_min < measurement.humidity
    /\ measurement.humidity < current_day_stats.humidity_max

\* The step feeds a measurement of another day than the non-empty active profile's.
IsRollover ==
    /\ IsAnalyzeStep
    /\ current_day_stats.measurement_count > 0
    /\ current_day_stats.date # DayKey(Fed.time)

\* C15 as claimed: when analyze receives a measurement of another day than the
\* active profile's and the active profile is non-empty, the finished profile is
\* appended to historical_daily_stats before the new profile is started.
C15_Original ==
    [][ IsRollover =>
            historical_daily_stats' =
                Append(historical_daily_stats, current_day_stats) ]_vars

\* C15 as amended: no analyze call changes historical_daily_stats; on a day
\* change the active profile is replaced by one of the new day that holds the
\* measurement alone, and the finished profile is dropped.
C15_Amended ==
    [][ /\ IsAnalyzeStep => historical_daily_stats' = historical_daily_stats
        /\ IsRollover =>
              current_day_stats' =
                  [ date              |-> DayKey(Fed.time),
                    temp_min          |-> Fed.temperature,
                    temp_max          |-> Fed.temperature,
                    humidity_min      |-> Fed.humidity,
                    humidity_max      |-> Fed.humidity,
                    measurement_count |-> 1 ] ]_vars

\* C15 witness: build_profile stored a history, and a later analyze call fed the
\* first measurement of another day than the one before it.
C15_Witness ==
    /\ profile_batch # <<>>
    /\ historical_daily_stats # <<>>
    /\ Len(input) > Len(profile_batch[1])
    /\ Len(input) >= 2
    /\ DayKey(measurement.time) # DayKey(input[Len(input) - 1].time)
    /\ current_day_stats.measurement_count = 1

BatchSorted ==
    \A i \in 1..(Len(profile_batch[1]) - 1) :
        profile_batch[1][i].time <= profile_batch[1][i + 1].time

\* The number of the calendar day a profile is of, counted from the first year.
DayNumber(stats) == stats.date[1][1] * 365 + stats.date[1][2] - 1

\* The positions of the batch that fall on the day numbered d.
BatchOfDay(d) ==
    { i \in 1..Len(profile_batch[1]) : profile_batch[1][i].time \div 24 = d }

RECURSIVE SumCounts(_)
SumCounts(hist) ==
    IF hist = <<>> THEN 0 ELSE Head(hist).measurement_count + SumCounts(Tail(hist))

\* The profile is the one of the batch entries of its day: their number, and the
\* least and greatest temperature and humidity among them.
IsProfileOfItsDay(stats) ==
    LET E == BatchOfDay(DayNumber(stats))
        b == profile_batch[1]
    IN  /\ E # {}
        /\ stats.measurement_count = Cardinality(E)
        /\ \A i \in E : /\ stats.temp_min <= b[i].temperature
                        /\ b[i].temperature <= stats.temp_max
                        /\ stats.humidity_min <= b[i].humidity
                        /\ b[i].humidity <= stats.humidity_max
        /\ \E i \in E : b[i].temperature = stats.temp_min
        /\ \E i \in E : b[i].temperature = stats.temp_max
        /\ \E i \in E : b[i].humidity = stats.humidity_min
        /\ \E i \in E : b[i].humidity = stats.humidity_max

\* C16: after build_profile over a batch sorted by time, historical_daily_stats
\* holds exactly one profile per distinct calendar day of the batch, in day order,
\* each with measurement_count > 0 and the min/max of that day's values; the
\* counts sum to the batch length, and an empty batch yields an empty history.
C16_ProfilePerDay ==
    (profile_batch # <<>> /\ BatchSorted) =>
        LET h == historical_daily_stats
            b == profile_batch[1]
        IN  /\ Len(h) = Cardinality({ b[i].time \div 24 : i \in 1..Len(b) })
            /\ \A k \in 1..Len(h) :
                   h[k].measurement_count > 0 /\ IsProfileOfItsDay(h[k])
            /\ \A k \in 1..(Len(h) - 1) : DayNumber(h[k]) < DayNumber(h[k + 1])
            /\ SumCounts(h) = Len(b)
            /\ b = <<>> => h = <<>>

\* C16 witness: a sorted batch of two days with two readings or more each, the
\* first day with different least and greatest temperatures.
C16_Witness ==
    /\ profile_batch # <<>>
    /\ BatchSorted
    /\ Len(historical_daily_stats) = 2
    /\ historical_daily_stats[1].measurement_count >= 2
    /\ historical_daily_stats[2].measurement_count >= 2
    /\ historical_daily_stats[1].temp_min < historical_daily_stats[1].temp_max

\* The positions of the input whose flags, as the stream returned them, have one
\* of the four anomaly flags set, and those with possible_sunlight set.
FlaggedPositions ==
    { i \in 1..Len(input) :
        \/ outputs[i].temperature_spike
        \/ outputs[i].humidity_spike
        \/ outputs[i].co2_spike
        \/ outputs[i].possible_sunlight }

SunlightPositions == { i \in 1..Len(input) : outputs[i].possible_sunlight }

\* The k-th flagged position in input order.
KthFlagged(k) ==
    CHOOSE i \in FlaggedPositions :
        Cardinality({ j \in FlaggedPositions : j <= i }) = k

\* C17: for the BatchAnalysisResult of analyze_historical_data, total_measurements
\* is the input length, anomalies_detected is the number of inputs with any flag
\* set and the length of anomaly_timestamps, sunlight_events is the number of
\* inputs with possible_sunlight set, anomaly_timestamps names the flagged inputs
\* in input order, each once, and sunlight_events <= anomalies_detected <=
\* total_measurements.
C17_BatchSummaryCounts ==
    batch_result # <<>> =>
        LET b == batch_result[1]
        IN  /\ b.total_measurements = Len(input)
            /\ b.anomalies_detected = Cardinality(FlaggedPositions)
            /\ b.anomalies_detected = Len(b.anomaly_timestamps)
            /\ b.sunlight_events = Cardinality(SunlightPositions)
            /\ \A k \in 1..Len(b.anomaly_timestamps) :
                   /\ b.anomaly_timestamps[k][1] = input[KthFlagged(k)].time
                   /\ b.anomaly_timestamps[k][3] = input[KthFlagged(k)].device
            /\ b.sunlight_events <= b.anomalies_detected
            /\ b.anomalies_detected <= b.total_measurements

\* C17 witness: a batch with a sunlight event, an anomaly that is none, and a
\* reading without any flag.
C17_Witness ==
    /\ batch_result # <<>>
    /\ batch_result[1].sunlight_events >= 1
    /\ batch_result[1].sunlight_events < batch_result[1].anomalies_detected
    /\ batch_result[1].anomalies_detected < batch_result[1].total_measurements

\* C18: analyze never aborts on a NaN temperature, neither on the measurement that
\* carries it nor on a later one analysed while it is in the window: every call
\* returns flags and the stream goes on.
C18_NeverAborts == ~panicked /\ Len(outputs) = Len(input)

\* The baseline was unavailable for the measurement, whose humidity is above the
\* definite cutoff.
NoBaselineAboveDefinite ==
    /\ Analysed
    /\ baseline = <<>>
    /\ measurement.humidity > config.humidity_definite_anomaly

\* C19 as claimed: when the baseline is unavailable, stages 2 and 3 set no flag: a
\* measurement with humidity above the definite cutoff gets neither
\* humidity_spike nor temperature_spike.
C19_Original ==
    NoBaselineAboveDefinite =>
        ~flags.humidity_spike /\ ~flags.temperature_spike

\* C19 as amended: when the baseline is unavailable, a measurement with humidity
\* above the definite cutoff gets no temperature_spike, and gets humidity_spike
\* exactly when its humidity is at or below the suspicious cutoff, its hour is
\* within the daylight hours and its temperature is at least
\* temp_absolute_min_for_spike.
C19_Amended ==
    NoBaselineAboveDefinite =>
        /\ ~flags.temperature_spike
        /\ flags.humidity_spike <=>
               /\ measurement.humidity <= config.humidity_suspicious
               /\ WithinDaylight
               /\ measurement.temperature >= config.temp_absolute_min_for_spike

\* C19 witness: no baseline, humidity above the definite cutoff, and
\* humidity_spike set alone by stage 2.
C19_Witness ==
    /\ NoBaselineAboveDefinite
    /\ probed
    /\ flags.humidity_spike
    /\ ~flags.temperature_spike
    /\ ~flags.possible_sunlight

\* C22: an analyze call changes only the active daily profile and the window: the
\* detector's config and its historical profile list are the same after the call
\* as before it, for every measurement.
C22_AnalyzeFrame ==
    [][ IsAnalyzeStep =>
            /\ config' = config
            /\ historical_daily_stats' = historical_daily_stats ]_vars

\* C22 witness: build_profile stored the profiles of two days, and two or more
\* analyze calls since then changed the profile and the window, not the history.
C22_Witness ==
    /\ profile_batch # <<>>
    /\ Len(historical_daily_stats) = 2
    /\ Len(input) >= Len(profile_batch[1]) + 2
    /\ current_day_stats.measurement_count >= 2
    /\ Len(recent_measurements) >= 2
    /\ config = DefaultConfig

\* The measurement's humidity is above the definite cutoff and at or below the
\* suspicious one.
InSuspiciousBand ==
    /\ config.humidity_definite_anomaly < measurement.humidity
    /\ measurement.humidity <= config.humidity_suspicious

\* A baseline exists and the measurement's temperature is risen above it by
\* temp_above_daily_min and is at least temp_absolute_min_for_spike.
RisenAboveBaseline ==
    /\ baseline # <<>>
    /\ measurement.temperature - baseline[1] >= config.temp_above_daily_min
    /\ measurement.temperature >= config.temp_absolute_min_for_spike

\* C24: a measurement in the suspicious humidity band whose temperature is risen
\* above an existing baseline gets humidity_spike and temperature_spike at any
\* hour, and possible_sunlight exactly when its hour is within the daylight hours.
C24_Stage2Corroboration ==
    (Analysed /\ InSuspiciousBand /\ RisenAboveBaseline) =>
        /\ flags.humidity_spike
        /\ flags.temperature_spike
        /\ flags.possible_sunlight <=> WithinDaylight

\* C24 witness: such a measurement outside the daylight hours: both spikes, no
\* possible_sunlight.
C24_Witness ==
    /\ probed
    /\ InSuspiciousBand
    /\ RisenAboveBaseline
    /\ ~WithinDaylight
    /\ flags.humidity_spike
    /\ flags.temperature_spike
    /\ ~flags.possible_sunlight

\* C25: for a measurement in the suspicious humidity band with no baseline
\* available, humidity_spike is set exactly when the hour is within the daylight
\* hours and the temperature is at least temp_absolute_min_for_spike, and then
\* temperature_spike and possible_sunlight are both false.
C25_Stage2WithoutBaseline ==
    (Analysed /\ InSuspiciousBand /\ baseline = <<>>) =>
        /\ flags.humidity_spike <=>
               /\ WithinDaylight
               /\ measurement.temperature >= config.temp_absolute_min_for_spike
        /\ flags.humidity_spike =>
               ~flags.temperature_spike /\ ~flags.possible_sunlight

\* C25 witness: no baseline, a temperature above the absolute minimum, but an hour
\* outside the daylight hours: no humidity_spike.
C25_Witness ==
    /\ probed
    /\ InSuspiciousBand
    /\ baseline = <<>>
    /\ ~WithinDaylight
    /\ measurement.temperature >= config.temp_absolute_min_for_spike
    /\ ~flags.humidity_spike

\* C26: when stage 2 did not set temperature_spike (the humidity is outside the
\* suspicious band, or the corroboration failed), temperature_spike is set
\* exactly when a baseline exists, the temperature is risen above it and is at
\* least the absolute minimum, and the hour is within the daylight hours.
C26_Stage3TemperatureSpike ==
    (Analysed /\ ~(InSuspiciousBand /\ RisenAboveBaseline)) =>
        (flags.temperature_spike <=> (RisenAboveBaseline /\ WithinDaylight))

\* C26 witness: humidity above the suspicious cutoff, a risen temperature in the
\* daylight hours: temperature_spike alone.
C26_Witness ==
    /\ probed
    /\ measurement.humidity > config.humidity_suspicious
    /\ RisenAboveBaseline
    /\ WithinDaylight
    /\ flags.temperature_spike
    /\ ~flags.humidity_spike

\* C27: in every analyze result, temperature_spike and humidity_spike with the
\* hour inside the daylight hours imply possible_sunlight.
C27_SunlightConjunction ==
    Analysed =>
        ((flags.temperature_spike /\ flags.humidity_spike /\ WithinDaylight)
            => flags.possible_sunlight)

\* C27 witness: both spikes at the first daylight hour, with possible_sunlight.
C27_Witness ==
    /\ probed
    /\ flags.temperature_spike
    /\ flags.humidity_spike
    /\ HourOfDay = config.daylight_start_hour
    /\ flags.possible_sunlight

\* C29 as claimed: the batch driver replays only batches with non-decreasing
\* timestamps: a batch with a measurement older than its predecessor is detected
\* before it reaches the classifier, so no result comes out of one.
C29_Original == batch_result # <<>> => InputSorted

RECURSIVE IsSubsequence(_, _)
\* s can be obtained from t by dropping elements.
IsSubsequence(s, t) ==
    IF s = <<>> THEN TRUE
    ELSE IF t = <<>> THEN FALSE
    ELSE IF Head(s) = Head(t) THEN IsSubsequence(Tail(s), Tail(t))
    ELSE IsSubsequence(s, Tail(t))

RecordTimes ==
    [k \in 1..Len(batch_result[1].anomaly_timestamps) |->
        batch_result[1].anomaly_timestamps[k][1]]

InputTimes == [i \in 1..Len(input) |-> input[i].time]

\* C29 as amended: analyze_historical_data checks no ordering: every batch, in
\* timestamp order or not, is replayed whole and in the order given, and the
\* flagged measurements are reported in that order.
C29_Amended ==
    batch_result # <<>> =>
        /\ batch_result[1].total_measurements = Len(input)
        /\ IsSubsequence(RecordTimes, InputTimes)

\* C29 witness: a batch out of timestamp order was replayed, and two of its
\* flagged measurements are reported later one first.
C29_Witness ==
    /\ batch_result # <<>>
    /\ ~InputSorted
    /\ \E k \in 1..(Len(RecordTimes) - 1) : RecordTimes[k] > RecordTimes[k + 1]

\* The measurements of device d in the batch, in batch order.
OfDevice(d) == SelectSeq(input, LAMBDA m : m.device = d)

\* The records the batch result holds for device d, in order.
RecordsOfDevice(d) ==
    SelectSeq(batch_result[1].anomaly_timestamps, LAMBDA rec : rec[3] = d)

\* C30: in a batch that interleaves several devices, the flags reported for a
\* device's measurements are the flags obtained by analysing that device's
\* measurements alone.
C30_DeviceIsolation ==
    batch_result # <<>> =>
        \A d \in { input[i].device : i \in 1..Len(input) } :
            RecordsOfDevice(d) =
                analyze_historical_data(OfDevice(d), config).anomaly_timestamps

\* The flagged records submitted so far, chunk after chunk.
RECURSIVE Submitted(_)
Submitted(chunks) ==
    IF chunks = <<>> THEN <<>>
    ELSE Submitted(SubSeq(chunks, 1, Len(chunks) - 1)) \o chunks[Len(chunks)]

\* The driver has left the chunk loop, by its end or by an error.
DriverReturned == persist.status \in {"ok", "err"}

\* C28: when the batch driver has returned, every flagged record has been
\* submitted in exactly one chunk, in order, whether or not the write of a chunk
\* failed: a failed chunk does not keep the remaining chunks from being written.
C28_AllChunksSubmitted ==
    DriverReturned => Submitted(persist.posted) = persist.anomaly_batch

\* The message taken up, its JSON and what from_json returned for it.
Msg == envelope.msg[1]
Json == envelope.json[1]
RoundTripDone == envelope.phase = "parsed"

\* The JSON has the payload variant's rename as a string under "status", next
\* to the device name under "device", in one object.
TaggedNextToDevice ==
    /\ {"device", "status"} \subseteq DOMAIN Json
    /\ Json["device"] = [t |-> "string", n |-> 0, s |-> Msg.device]
    /\ Json["status"].t = "string"
    /\ \E v \in DevicePayload :
          v.variant = Msg.payload.variant /\ v.status = Json["status"].s

\* Every f32 field of the message (humidity, offset) is a finite number.
FloatsFinite ==
    \A k \in DOMAIN Msg.payload :
        k \in {"humidity", "offset"} => Msg.payload[k] # NaN

WithoutStage5 ==
    Stage4(config, measurement,
        Stage3(TheDetector, measurement,
            Stage2(TheDetector, measurement,
                Stage1(config, measurement, DefaultFlags))))

\* C31: whenever stage 5 is reached with temperature_spike and humidity_spike
\* inside the daylight hours, possible_sunlight is already set, and the flags
\* analyze returns are the flags of analyze with stage 5 removed.
C31_Stage5Redundant ==
    Analysed =>
        /\ (WithoutStage5.temperature_spike /\ WithoutStage5.humidity_spike
                /\ WithinDaylight) => WithoutStage5.possible_sunlight
        /\ flags = WithoutStage5

\* C31 witness: stage 5 is reached with both spikes in the daylight hours, the
\* humidity spike being the definite one of stage 1 and the temperature spike the
\* independent one of stage 3.
C31_Witness ==
    /\ probed
    /\ measurement.humidity <= config.humidity_definite_anomaly
    /\ WithinDaylight
    /\ WithoutStage5.temperature_spike
    /\ WithoutStage5.humidity_spike
    /\ flags.possible_sunlight

\* The hour from which the three-hour window of a measurement starts at or after
\* the early-morning cutoff of 07:00.
LateMorning == HourOfDay >= 10

AboveBothCutoffs ==
    /\ measurement.humidity > config.humidity_definite_anomaly
    /\ measurement.humidity > config.humidity_suspicious

\* C33: in every analyze result possible_sunlight implies humidity_spike, and a
\* measurement whose humidity is above both cutoffs gets neither humidity_spike
\* nor possible_sunlight, whatever its temperature rise, hour and CO2.
C33_HumidityGatesSunlight ==
    Analysed =>
        /\ flags.possible_sunlight => flags.humidity_spike
        /\ AboveBothCutoffs => (~flags.humidity_spike /\ ~flags.possible_sunlight)

\* C33 witness: humidity above both cutoffs, a temperature spike and a CO2 spike
\* in the daylight hours, and neither humidity_spike nor possible_sunlight.
C33_Witness ==
    /\ probed
    /\ AboveBothCutoffs
    /\ WithinDaylight
    /\ flags.temperature_spike
    /\ flags.co2_spike
    /\ ~flags.humidity_spike
    /\ ~flags.possible_sunlight

\* C34: outside the daylight hours temperature_spike implies humidity_spike and a
\* humidity in the suspicious band; with a humidity above humidity_suspicious,
\* temperature_spike implies the daylight hours.
C34_NightSpikesFromStage2 ==
    Analysed =>
        /\ (~WithinDaylight /\ flags.temperature_spike) =>
               (flags.humidity_spike /\ InSuspiciousBand)
        /\ (measurement.humidity > config.humidity_suspicious
               /\ flags.temperature_spike) => WithinDaylight

\* C34 witness: at 05:00, before the daylight hours of the default
\* configuration, a risen temperature with a humidity in the suspicious band:
\* temperature_spike with humidity_spike.
C34_Witness ==
    /\ probed
    /\ config = DefaultConfig
    /\ HourOfDay = 5
    /\ InSuspiciousBand
    /\ flags.temperature_spike
    /\ flags.humidity_spike

\* How often event e is in the log of the current wake cycle, and where first.
Count(e) == Cardinality({ i \in 1..Len(firmware.log) : firmware.log[i] = e })

First(e) ==
    IF Count(e) = 0 THEN 0
    ELSE CHOOSE i \in 1..Len(firmware.log) :
            /\ firmware.log[i] = e
            /\ \A j \in 1..(i - 1) : firmware.log[j] # e

Before(e, f) == Count(e) > 0 /\ Count(f) > 0 /\ First(e) < First(f)

\* The command of the cycle is decided, and it is NoOp or another one.
CommandDecided == firmware.pc \notin {"asleep", "listening"} \/ Count("sleep") = 1
NoOpCycle == CommandDecided /\ firmware.command.cmd = "NoOp"
CommandCycle == CommandDecided /\ firmware.command.cmd # "NoOp"

LatestCommand ==
    IF broker.published # <<>>
          /\ broker.published[Len(broker.published)].cmd # "NoOp"
    THEN <<broker.published[Len(broker.published)]>>
    ELSE <<>>

\* Command c can still reach a handler: it is retained on the topic, or waits in
\* the channel for the one recv_timeout of the cycle, or is the command of the
\* cycle whose handler has not started yet.
OnItsWay(c) ==
    \/ broker.retained = <<c>>
    \/ /\ firmware.pc = "listening"
       /\ \E i \in 1..Len(firmware.channel) : firmware.channel[i] = c
    \/ firmware.pc \in {"received", "cleared"} /\ firmware.command = c

Executions(id) ==
    Cardinality({ i \in 1..Len(firmware.executed) : firmware.executed[i] = id })

\* C36: the command the commander published last is executed by the device
\* exactly once: at any moment it has been executed once, or it has not been
\* executed and is still on its way to a handler, also when it was published
\* while the device was awake with an earlier command not yet cleared.
C36_NoCommandLostOrRepeated ==
    LatestCommand # <<>> =>
        \/ Executions(LatestCommand[1].id) = 1
        \/ Executions(LatestCommand[1].id) = 0 /\ OnItsWay(LatestCommand[1])

\* perform_measurement has its payload.
MeasurementPayloadBuilt ==
    /\ Count("handler") = 1
    /\ firmware.command.cmd = "NoOp"
    /\ firmware.payload # <<>>

\* C37: when perform_measurement has built its payload, the sensor was started
\* and stop_periodic_measurement was called after that, on the path of a read,
\* of a failed read and of a timeout; the payload is MeasurementSuccess exactly
\* when data was read, and an Error otherwise.
C37_SensorStoppedOnEveryPath ==
    MeasurementPayloadBuilt =>
        /\ Before("start", "stop")
        /\ Count("stop") = 1
        /\ firmware.payload[1].variant = "MeasurementSuccess" <=> firmware.data # <<>>
        /\ firmware.data = <<>> => firmware.payload[1].variant = "Error"

\* C37 witness: the timeout path: fifteen waits, no read, the sensor stopped and
\* an Error payload built.
C37_Witness ==
    /\ MeasurementPayloadBuilt
    /\ firmware.attempts = 15
    /\ Count("read") = 0
    /\ Count("stop") = 1
    /\ ~firmware.measuring
    /\ firmware.payload[1].variant = "Error"

\* Some poll of data_ready_status reported that data is ready.
SomePollReady == \E i \in 1..Len(firmware.polls) : firmware.polls[i]

\* C38: perform_measurement waits at most 15 times; it returns the "Measurement
\* timed out" error only if no poll reported data ready, and if a poll, the one
\* after the 15th wait included, reported data ready, the measurement is read.
C38_TimeoutOnlyWhenNeverReady ==
    /\ firmware.attempts <= 15
    /\ (MeasurementPayloadBuilt
          /\ firmware.payload[1] = [variant |-> "Error",
                                    detail |-> "Measurement timed out"])
          => ~SomePollReady
    /\ (SomePollReady /\ firmware.pc \in {"stopping", "building", "publishing"})
          => Count("read") = 1

====
